---- MODULE Spec2Model ----
(***************************************************************************)
(* Model of script_0.2.py (HAARVI serum sample cleaning).                  *)
(*                                                                         *)
(* The script reads every spreadsheet of an extracted archive into one     *)
(* table (extract_data), runs four validators over it in sequence          *)
(* (validate_barcodeid, validate_ptid, validate_collection_date,           *)
(* validate_available), each appending blocks to a text log                *)
(* (log_invalid_row), and exports the table as CSV.                        *)
(*                                                                         *)
(* Cells are tagged values: a string is a sequence of one-character        *)
(* strings, NaN is the empty spreadsheet cell, NaT the missing timestamp,  *)
(* a date is a pandas Timestamp at midnight, a bool is a Python bool.      *)
(* Table indices are 0-based as in pandas: row i of the sequence df has    *)
(* table index i - 1.                                                      *)
(***************************************************************************)
EXTENDS Integers, Sequences, FiniteSets, TLC

VARIABLES files, fi, master_raw_df, df, log, pc, err, today, exported, snap

vars == <<files, fi, master_raw_df, df, log, pc, err, today, exported, snap>>

----------------------------------------------------------------------------
(* Bounds of the model *)

MaxFiles == 2
MaxRows == 4

----------------------------------------------------------------------------
(* Cell values *)

Str(s) == [t |-> "str", v |-> s]
NaN == [t |-> "nan"]
NaT == [t |-> "nat"]
Bool(b) == [t |-> "bool", b |-> b]
Timestamp(y, m, d) == [t |-> "date", y |-> y, m |-> m, d |-> d]

\* pd.isnull(value)
isnull(c) == c.t \in {"nan", "nat"}

\* str(value) for the cell kinds a spreadsheet column of text holds
str(c) ==
    CASE c.t = "str" -> c.v
      [] c.t = "nan" -> <<"n", "a", "n">>
      [] c.t = "nat" -> <<"N", "a", "T">>
      [] c.t = "bool" -> IF c.b THEN <<"T", "r", "u", "e">>
                                ELSE <<"F", "a", "l", "s", "e">>
      [] OTHER -> <<>>

\* value == "<text>" for a cell and a Python string literal
EqStr(c, s) == c.t = "str" /\ c.v = s

----------------------------------------------------------------------------
(* Python string operations *)

\* the characters of the model in code-point order
Alphabet ==
    <<"/", "0", "1", "2", "3", "4", "5", "6", "7", "8", "9",
      "A", "B", "C", "H", "I", "N", "X", "Y", "h">>

ord(c) == CHOOSE i \in 1..Len(Alphabet) : Alphabet[i] = c

\* s < t for Python strings: lexicographic by code point
RECURSIVE StrLess(_, _)
StrLess(s, t) ==
    IF t = <<>> THEN FALSE
    ELSE IF s = <<>> THEN TRUE
    ELSE IF Head(s) = Head(t) THEN StrLess(Tail(s), Tail(t))
    ELSE ord(Head(s)) < ord(Head(t))

\* sub in s
Contains(s, sub) ==
    \E i \in 1..(Len(s) - Len(sub) + 1) :
        SubSeq(s, i, i + Len(sub) - 1) = sub

----------------------------------------------------------------------------
(* pd.to_datetime(column, errors='coerce', format="%m/%d/%Y") *)

Digits == <<"0", "1", "2", "3", "4", "5", "6", "7", "8", "9">>

IsDigit(c) == \E i \in 1..Len(Digits) : Digits[i] = c

DigitVal(c) == (CHOOSE i \in 1..Len(Digits) : Digits[i] = c) - 1

RECURSIVE ToInt(_)
ToInt(s) ==
    IF s = <<>> THEN 0
    ELSE ToInt(SubSeq(s, 1, Len(s) - 1)) * 10 + DigitVal(s[Len(s)])

\* %m : 1[0-2] | 0[1-9] | [1-9]
MatchMonth(p) ==
    \/ Len(p) = 1 /\ IsDigit(p[1]) /\ p[1] # "0"
    \/ Len(p) = 2 /\ p[1] = "0" /\ IsDigit(p[2]) /\ p[2] # "0"
    \/ Len(p) = 2 /\ p[1] = "1" /\ p[2] \in {"0", "1", "2"}

\* %d : 3[0-1] | [1-2]\d | 0[1-9] | [1-9] | " "[1-9]
MatchDay(p) ==
    \/ Len(p) = 1 /\ IsDigit(p[1]) /\ p[1] # "0"
    \/ Len(p) = 2 /\ p[1] \in {"0", " "} /\ IsDigit(p[2]) /\ p[2] # "0"
    \/ Len(p) = 2 /\ p[1] \in {"1", "2"} /\ IsDigit(p[2])
    \/ Len(p) = 2 /\ p[1] = "3" /\ p[2] \in {"0", "1"}

\* %Y : \d\d\d\d
MatchYear(p) == Len(p) = 4 /\ \A i \in 1..4 : IsDigit(p[i])

IsLeap(y) == (y % 4 = 0 /\ y % 100 # 0) \/ y % 400 = 0

DaysInMonth(y, m) ==
    IF m = 2 THEN (IF IsLeap(y) THEN 29 ELSE 28)
    ELSE IF m \in {4, 6, 9, 11} THEN 30 ELSE 31

\* the day number of a part of %d (a leading blank is padding)
DayInt(p) == IF p[1] = " " THEN ToInt(Tail(p)) ELSE ToInt(p)

\* one text under "%m/%d/%Y", the whole text matched; NaT when it does not
\* match or names no calendar day
strptime(s) ==
    LET slashes == {i \in 1..Len(s) : s[i] = "/"}
    IN  IF Cardinality(slashes) # 2 THEN NaT
        ELSE
          LET a == CHOOSE i \in slashes : \A j \in slashes : i <= j
              b == CHOOSE i \in slashes : \A j \in slashes : j <= i
              mp == SubSeq(s, 1, a - 1)
              dp == SubSeq(s, a + 1, b - 1)
              yp == SubSeq(s, b + 1, Len(s))
          IN  IF MatchMonth(mp) /\ MatchDay(dp) /\ MatchYear(yp)
                 /\ DayInt(dp) <= DaysInMonth(ToInt(yp), ToInt(mp))
              THEN Timestamp(ToInt(yp), ToInt(mp), DayInt(dp))
              ELSE NaT

\* one cell of the column: a timestamp stays, a missing value becomes NaT,
\* a text is parsed
to_datetime(c) ==
    CASE c.t = "date" -> c
      [] c.t = "str" -> strptime(c.v)
      [] OTHER -> NaT

\* a < b for two timestamps
TsLess(a, b) ==
    \/ a.y < b.y
    \/ a.y = b.y /\ a.m < b.m
    \/ a.y = b.y /\ a.m = b.m /\ a.d < b.d

\* start_date = date(2020, 2, 14)
start_date == Timestamp(2020, 2, 14)

\* the values date.today() takes in the runs of the model
RunDates == {Timestamp(2021, 1, 1), Timestamp(2021, 1, 2)}

----------------------------------------------------------------------------
(* log_invalid_row: one block of the log file *)

\* one " - <issue>" line: the text of the issue, the value formatted into it
\* and the table indices formatted into it
Issue(kind, value, rows) == [kind |-> kind, value |-> value, rows |-> rows]

Block(file_name, master_index, source_row_index, issues) ==
    [File |-> file_name, MasterIndex |-> master_index,
     SourceRowIndex |-> source_row_index, issues |-> issues]

\* the block of the row at table index idx
log_invalid_row(d, idx, issues) ==
    Block(d[idx + 1].SourceFile, idx, d[idx + 1].OriginalRow, issues)

\* the blocks a per-row loop writes when "if issues:" is inside the loop:
\* one for each row with issues, in row order
RECURSIVE RowBlocks(_, _, _)
RowBlocks(d, issuesOf, n) ==
    IF n = 0 THEN <<>>
    ELSE LET rest == RowBlocks(d, issuesOf, n - 1)
         IN  IF issuesOf[n] # <<>>
             THEN Append(rest, log_invalid_row(d, n - 1, issuesOf[n]))
             ELSE rest

\* the blocks written when "if issues:" follows the loop: idx and issues
\* hold what the last iteration left
LastRowBlocks(d, issuesOf) ==
    IF issuesOf[Len(d)] # <<>>
    THEN <<log_invalid_row(d, Len(d) - 1, issuesOf[Len(d)])>>
    ELSE <<>>

----------------------------------------------------------------------------
(* validate_barcodeid *)

\* the issues of the loop body for one Barcode_ID value
BarcodeIssues(row) ==
    IF Len(str(row)) # 8
    THEN <<Issue("Barcode_ID length is not equal to 8", str(row), <<>>)>>
    ELSE IF isnull(row)
    THEN <<Issue("Barcode_ID is NA", <<>>, <<>>)>>
    ELSE <<>>

\* df["Barcode_ID"].is_unique: missing values count as one value
is_unique(d) ==
    \A i, j \in 1..Len(d) : i # j => d[i].Barcode_ID # d[j].Barcode_ID

\* df.duplicated("Barcode_ID", keep=False): the positions of the rows whose
\* value occurs in another row too, missing values alike
duplicated(d) ==
    {i \in 1..Len(d) : \E j \in 1..Len(d) : j # i /\ d[j].Barcode_ID = d[i].Barcode_ID}

\* duplicates.groupby("Barcode_ID").groups: groupby drops the rows whose key
\* is missing, the keys of the remaining rows
GroupKeys(d) ==
    {d[i].Barcode_ID.v : i \in {k \in duplicated(d) : ~isnull(d[k].Barcode_ID)}}

\* the table indices of one group, ascending
RECURSIVE GroupIndices(_, _, _)
GroupIndices(d, key, n) ==
    IF n = 0 THEN <<>>
    ELSE LET rest == GroupIndices(d, key, n - 1)
         IN  IF n \in duplicated(d) /\ EqStr(d[n].Barcode_ID, key)
             THEN Append(rest, n - 1)
             ELSE rest

\* SortedKeys with the keys in descending order
RECURSIVE SortedKeys_descending(_)
SortedKeys_descending(keys) ==
    IF keys = {} THEN <<>>
    ELSE LET greatest == CHOOSE k \in keys : \A o \in keys \ {k} : StrLess(o, k)
         IN  <<greatest>> \o SortedKeys_descending(keys \ {greatest})

\* the keys in the order groupby sorts them
RECURSIVE SortedKeys(_)
SortedKeys(keys) ==
    IF keys = {} THEN <<>>
    ELSE LET least == CHOOSE k \in keys : \A o \in keys \ {k} : StrLess(k, o)
         IN  <<least>> \o SortedKeys(keys \ {least})

\* the blocks of one group: one per member row, all with the same issue
RECURSIVE GroupBlocks(_, _, _, _)
GroupBlocks(d, key, indicies, n) ==
    IF n = 0 THEN <<>>
    ELSE Append(GroupBlocks(d, key, indicies, n - 1),
                log_invalid_row(d, indicies[n],
                    <<Issue("Duplicate Barcode_ID", key, indicies)>>))

RECURSIVE DupBlocks(_, _)
DupBlocks(d, keys) ==
    IF keys = <<>> THEN <<>>
    ELSE LET indicies == GroupIndices(d, Head(keys), Len(d))
         IN  GroupBlocks(d, Head(keys), indicies, Len(indicies))
             \o DupBlocks(d, Tail(keys))

\* the whole function: the blocks it appends and the exception that ends it
validate_barcodeid(d) ==
    IF Len(d) = 0
    THEN [blocks |-> <<>>, err |-> "UnboundLocalError: issues"]
    ELSE LET rowpass == LastRowBlocks(d, [n \in 1..Len(d) |-> BarcodeIssues(d[n].Barcode_ID)])
         IN  IF is_unique(d)
             THEN [blocks |-> rowpass, err |-> "UnboundLocalError: grouped"]
             ELSE [blocks |-> rowpass \o DupBlocks(d, SortedKeys(GroupKeys(d))),
                   err |-> "none"]

----------------------------------------------------------------------------
(* validate_ptid *)

identifiers == <<<<"C">>, <<"H">>, <<"I", "N">>>>

\* PtidIssues with the identifier "IN" left out
PtidIssues_withoutIN(row) ==
    IF isnull(row)
    THEN <<Issue("PTID is NA", <<>>, <<>>)>>
    ELSE IF ~ \E k \in 1..2 : Contains(str(row), identifiers[k])
    THEN <<Issue("PTID is not correctly formatted", str(row), <<>>)>>
    ELSE <<>>

PtidIssues(row) ==
    IF isnull(row)
    THEN <<Issue("PTID is NA", <<>>, <<>>)>>
    ELSE IF ~ \E k \in 1..Len(identifiers) : Contains(str(row), identifiers[k])
    THEN <<Issue("PTID is not correctly formatted", str(row), <<>>)>>
    ELSE <<>>

validate_ptid(d) ==
    RowBlocks(d, [n \in 1..Len(d) |-> PtidIssues(d[n].Patient_Study_ID)], Len(d))

----------------------------------------------------------------------------
(* validate_collection_date *)

Fmt2(n) == <<Digits[(n \div 10) + 1], Digits[(n % 10) + 1]>>

Fmt4(n) == Fmt2(n \div 100) \o Fmt2(n % 100)

\* str(Timestamp) of a midnight timestamp
TsStr(ts) ==
    Fmt4(ts.y) \o <<"-">> \o Fmt2(ts.m) \o <<"-">> \o Fmt2(ts.d)
    \o <<" ", "0", "0", ":", "0", "0", ":", "0", "0">>

\* DateIssues with the lower bound itself out of range
DateIssues_boundExcluded(row, now) ==
    IF isnull(row)
    THEN <<Issue("Date_Collected is NA", <<>>, <<>>)>>
    ELSE IF ~TsLess(start_date, row) \/ TsLess(now, row)
    THEN <<Issue("Date_Collected is outside of range", TsStr(row), <<>>)>>
    ELSE <<>>

DateIssues(row, now) ==
    IF isnull(row)
    THEN <<Issue("Date_Collected is NA", <<>>, <<>>)>>
    ELSE IF TsLess(row, start_date) \/ TsLess(now, row)
    THEN <<Issue("Date_Collected is outside of range", TsStr(row), <<>>)>>
    ELSE <<>>

\* DateColumn with the rows of unparsable dates dropped
DateColumn_dropna(d) ==
    SelectSeq([n \in 1..Len(d) |-> [d[n] EXCEPT !.Date_Collected = to_datetime(@)]],
              LAMBDA r : r.Date_Collected # NaT)

\* the column after pd.to_datetime
DateColumn(d) ==
    [n \in 1..Len(d) |-> [d[n] EXCEPT !.Date_Collected = to_datetime(@)]]

validate_collection_date(d, now) ==
    LET nd == DateColumn(d)
    IN  [df |-> nd,
         blocks |-> RowBlocks(nd, [n \in 1..Len(nd) |-> DateIssues(nd[n].Date_Collected, now)], Len(nd))]

----------------------------------------------------------------------------
(* validate_available *)

\* the value the loop body stores for one Available value
AvailableValue(row) ==
    IF isnull(row) THEN Bool(TRUE)
    ELSE IF EqStr(row, <<"N">>) THEN Bool(FALSE)
    ELSE IF EqStr(row, <<"Y">>) THEN Bool(TRUE)
    ELSE Bool(TRUE)

AvailableIssues(row, idx) ==
    IF isnull(row) \/ EqStr(row, <<"N">>) \/ EqStr(row, <<"Y">>)
    THEN <<>>
    ELSE <<Issue("Availability is unknown at index", <<>>, <<idx>>)>>

validate_available(d) ==
    LET nd == [n \in 1..Len(d) |-> [d[n] EXCEPT !.Available = AvailableValue(@)]]
    IN  IF Len(d) = 0
        THEN [df |-> nd, blocks |-> <<>>, err |-> "UnboundLocalError: issues"]
        ELSE [df |-> nd,
              blocks |-> LastRowBlocks(d, [n \in 1..Len(d) |-> AvailableIssues(d[n].Available, n - 1)]),
              err |-> "none"]

----------------------------------------------------------------------------
(* Inputs: the spreadsheets of the archive and their data rows *)

FileNames == <<"a.xlsx", "b.xlsx", "c.xlsx">>

\* the spreadsheets rglob yields, in its order; one that is not readable
\* makes pd.read_excel raise
Archives ==
    UNION {[1..n -> BOOLEAN] : n \in 0..MaxFiles}

Row(barcode, ptid, collected, available) ==
    [Barcode_ID |-> barcode, Patient_Study_ID |-> ptid,
     Date_Collected |-> collected, Available |-> available]

\* the data rows a spreadsheet may hold. The four columns are validated
\* independently of each other, so every value of a column appears in some
\* row and the rows combine freely into tables.
SampleRows ==
    { Row(Str(<<"A", "B", "1", "2", "3", "4", "5", "6">>), Str(<<"C", "1">>),
          Str(<<"0", "2", "/", "1", "4", "/", "2", "0", "2", "0">>), Str(<<"Y">>)),
      Row(Str(<<"A", "B", "1", "2", "3", "4", "5", "6">>), NaN,
          Str(<<"0", "2", "/", "1", "3", "/", "2", "0", "2", "0">>), Str(<<"N">>)),
      Row(Str(<<"A", "B", "1", "2", "3", "4", "5">>), Str(<<"h", "1">>),
          Str(<<"0", "2", "/", "3", "0", "/", "2", "0", "2", "0">>), Str(<<"X">>)),
      Row(NaN, Str(<<"I", "N", "2">>),
          Str(<<"0", "1", "/", "0", "2", "/", "2", "0", "2", "1">>), NaN) }

\* the data rows of one spreadsheet, at most n of them
Sheets(n) == UNION {[1..k -> SampleRows] : k \in 0..n}

\* the frame of one spreadsheet: df["SourceFile"] = file.name and
\* df["OriginalRow"] = df.index + 2
Frame(name, sheet) ==
    [j \in 1..Len(sheet) |->
        [Barcode_ID |-> sheet[j].Barcode_ID,
         Patient_Study_ID |-> sheet[j].Patient_Study_ID,
         Date_Collected |-> sheet[j].Date_Collected,
         Available |-> sheet[j].Available,
         SourceFile |-> name,
         OriginalRow |-> (j - 1) + 2]]

\* pd.concat(frames, ignore_index=True): the rows of the frames in order
RECURSIVE concat(_)
concat(frames) ==
    IF frames = <<>> THEN <<>>
    ELSE Head(frames) \o concat(Tail(frames))

----------------------------------------------------------------------------
(* The run *)

Init ==
    /\ files \in Archives
    /\ fi = 1
    /\ master_raw_df = <<>>
    /\ df = <<>>
    /\ log = <<>>
    /\ pc = "extract"
    /\ err = "none"
    /\ today = NaT
    /\ exported = <<>>
    /\ snap = [df |-> <<>>, log |-> <<>>]

\* extract_data, one iteration of the loop over the spreadsheets: the file
\* is read and its frame appended
ReadFileOk ==
    /\ pc = "extract"
    /\ fi <= Len(files)
    /\ files[fi]
    /\ \E sheet \in Sheets(MaxRows - Len(concat(master_raw_df))) :
          master_raw_df' = Append(master_raw_df, Frame(FileNames[fi], sheet))
    /\ fi' = fi + 1
    /\ UNCHANGED <<files, df, log, pc, err, today, exported, snap>>

\* extract_data, one iteration: pd.read_excel raises, the file is skipped
ReadFileError ==
    /\ pc = "extract"
    /\ fi <= Len(files)
    /\ ~files[fi]
    /\ fi' = fi + 1
    /\ UNCHANGED <<files, master_raw_df, df, log, pc, err, today, exported, snap>>

\* extract_data, after the loop: pd.concat raises on an empty list of frames
Concat ==
    /\ pc = "extract"
    /\ fi > Len(files)
    /\ IF master_raw_df = <<>>
       THEN /\ pc' = "crashed"
            /\ err' = "ValueError: No objects to concatenate"
            /\ df' = df
       ELSE /\ pc' = "barcode"
            /\ err' = err
            /\ df' = concat(master_raw_df)
    /\ UNCHANGED <<files, fi, master_raw_df, log, today, exported, snap>>

ValidateBarcodeid ==
    /\ pc = "barcode"
    /\ LET r == validate_barcodeid(df)
       IN  /\ log' = log \o r.blocks
           /\ err' = r.err
           /\ pc' = IF r.err = "none" THEN "ptid" ELSE "crashed"
    /\ UNCHANGED <<files, fi, master_raw_df, df, today, exported, snap>>

ValidatePtid ==
    /\ pc = "ptid"
    /\ log' = log \o validate_ptid(df)
    /\ pc' = "date"
    /\ UNCHANGED <<files, fi, master_raw_df, df, err, today, exported, snap>>

ValidateCollectionDate ==
    /\ pc = "date"
    /\ \E now \in RunDates :
          LET r == validate_collection_date(df, now)
          IN  /\ today' = now
              /\ df' = r.df
              /\ log' = log \o r.blocks
    /\ pc' = "available"
    /\ UNCHANGED <<files, fi, master_raw_df, err, exported, snap>>

ValidateAvailable ==
    /\ pc = "available"
    /\ LET r == validate_available(df)
       IN  /\ df' = r.df
           /\ log' = log \o r.blocks
           /\ err' = r.err
           /\ pc' = IF r.err = "none" THEN "export" ELSE "crashed"
    /\ UNCHANGED <<files, fi, master_raw_df, today, exported, snap>>

\* master_raw_df.to_csv(master_df_path, index=False)
Export ==
    /\ pc = "export"
    /\ exported' = df
    /\ pc' = "done"
    /\ UNCHANGED <<files, fi, master_raw_df, df, log, err, today, snap>>

Next ==
    \/ ReadFileOk
    \/ ReadFileError
    \/ Concat
    \/ ValidateBarcodeid
    \/ ValidatePtid
    \/ ValidateCollectionDate
    \/ ValidateAvailable
    \/ Export

Spec == Init /\ [][Next]_vars

----------------------------------------------------------------------------
(* A second run of the two mutating validators over the table the first    *)
(* run normalized                                                          *)

\* validate_collection_date again; the clock has not gone back
RerunCollectionDate ==
    /\ pc = "export"
    /\ snap' = [df |-> df, log |-> log]
    /\ \E now \in RunDates :
          /\ ~TsLess(now, today)
          /\ LET r == validate_collection_date(df, now)
             IN  /\ today' = now
                 /\ df' = r.df
                 /\ log' = log \o r.blocks
    /\ pc' = "rerun_available"
    /\ UNCHANGED <<files, fi, master_raw_df, err, exported>>

\* validate_available again
RerunAvailable ==
    /\ pc = "rerun_available"
    /\ LET r == validate_available(df)
       IN  /\ df' = r.df
           /\ log' = log \o r.blocks
           /\ err' = r.err
           /\ pc' = IF r.err = "none" THEN "rerun_done" ELSE "crashed"
    /\ UNCHANGED <<files, fi, master_raw_df, today, exported, snap>>

NextRerun ==
    \/ Next
    \/ RerunCollectionDate
    \/ RerunAvailable

SpecRerun == Init /\ [][NextRerun]_vars

----------------------------------------------------------------------------
(* Vocabulary of the properties *)

\* the table as extract_data built it
Ingested == concat(master_raw_df)

\* the positions in the log of the blocks of table index idx whose first
\* issue is of one of the kinds
BlocksAt(l, idx, kinds) ==
    {k \in 1..Len(l) : l[k].MasterIndex = idx /\ l[k].issues[1].kind \in kinds}

\* the block carries the provenance of row i of the table
OfRow(b, i) ==
    /\ b.File = df[i].SourceFile
    /\ b.MasterIndex = i - 1
    /\ b.SourceRowIndex = df[i].OriginalRow

BarcodeKinds == {"Barcode_ID length is not equal to 8", "Barcode_ID is NA"}
DuplicateKinds == {"Duplicate Barcode_ID"}
PtidKinds == {"PTID is NA", "PTID is not correctly formatted"}
DateKinds == {"Date_Collected is NA", "Date_Collected is outside of range"}
AvailableKinds == {"Availability is unknown at index"}

BarcodeDone == pc \in {"ptid", "date", "available", "export", "done"}
PtidDone == pc \in {"date", "available", "export", "done"}
DateDone == pc \in {"available", "export", "done"}
AvailableDone == pc \in {"export", "done"}

----------------------------------------------------------------------------
(* Properties *)

\* C1: once validate_barcodeid has returned, every row whose Barcode_ID has
\* a string form of length other than 8 (a missing value included) has
\* exactly one block with the length issue and the row's SourceFile, table
\* index and OriginalRow, and a row whose value has length 8 has none.
C1_EveryBadLengthRowLogged ==
    BarcodeDone =>
        \A i \in 1..Len(df) :
            LET blocks == {k \in BlocksAt(log, i - 1, BarcodeKinds) :
                              /\ OfRow(log[k], i)
                              /\ log[k].issues[1].kind = "Barcode_ID length is not equal to 8"}
            IN  Cardinality(blocks) = IF Len(str(df[i].Barcode_ID)) # 8 THEN 1 ELSE 0

\* the rows of the table that hold the same Barcode_ID as row i, row i
\* included, as table indices
SameBarcode(i) == {j - 1 : j \in {n \in 1..Len(df) : df[n].Barcode_ID = df[i].Barcode_ID}}

\* C2: once validate_barcodeid has returned, every row whose Barcode_ID
\* occurs in two or more rows (the missing value included) has one block
\* whose single issue is the duplicate issue listing all the table indices
\* of its group, and a row whose value occurs once has no duplicate block.
C2_EveryDuplicateGroupLogged ==
    BarcodeDone =>
        \A i \in 1..Len(df) :
            LET blocks == BlocksAt(log, i - 1, DuplicateKinds)
            IN  IF Cardinality(SameBarcode(i)) >= 2
                THEN /\ Cardinality(blocks) = 1
                     /\ \A k \in blocks :
                           /\ OfRow(log[k], i)
                           /\ Len(log[k].issues) = 1
                           /\ {log[k].issues[1].rows[n] : n \in 1..Len(log[k].issues[1].rows)}
                                = SameBarcode(i)
                ELSE blocks = {}

\* C3: once validate_available has returned, every Available cell is a
\* boolean: true for a missing value or "Y", false for "N", true for any
\* other value; and exactly the rows of that last kind have one block with
\* the unknown-availability issue, naming the row's own index.
C3_AvailableNormalizedAndLogged ==
    AvailableDone =>
        \A i \in 1..Len(df) :
            LET raw == Ingested[i].Available
                unknown == raw.t = "str" /\ raw.v \notin {<<"Y">>, <<"N">>}
                blocks == BlocksAt(log, i - 1, AvailableKinds)
            IN  /\ df[i].Available.t = "bool"
                /\ df[i].Available.b = ~(raw.t = "str" /\ raw.v = <<"N">>)
                /\ Cardinality(blocks) = IF unknown THEN 1 ELSE 0
                /\ \A k \in blocks :
                      OfRow(log[k], i) /\ log[k].issues[1].rows = <<i - 1>>

\* C4: after validate_collection_date and validate_available have run a
\* second time on the table they normalized, every Date_Collected and every
\* Available cell equals its value after the first run, and no block was
\* appended for a row that had no date or availability block in the first
\* run.
C4_SecondRunChangesNothing ==
    pc = "rerun_done" =>
        \A i \in 1..Len(df) :
            /\ df[i].Date_Collected = snap.df[i].Date_Collected
            /\ df[i].Available = snap.df[i].Available
            /\ BlocksAt(snap.log, i - 1, DateKinds \cup AvailableKinds) = {}
                  => BlocksAt(log, i - 1, DateKinds \cup AvailableKinds) = {}

\* the dates the texts of the spreadsheets denote under month/day/year
\* (NaT: the text is no date)
C5_Denotes(text) ==
    CASE text = <<"0", "2", "/", "1", "4", "/", "2", "0", "2", "0">> -> Timestamp(2020, 2, 14)
      [] text = <<"0", "2", "/", "1", "3", "/", "2", "0", "2", "0">> -> Timestamp(2020, 2, 13)
      [] text = <<"0", "1", "/", "0", "2", "/", "2", "0", "2", "1">> -> Timestamp(2021, 1, 2)
      [] OTHER -> NaT

\* day a is strictly before day b
C5_Before(a, b) == a.y * 10000 + a.m * 100 + a.d < b.y * 10000 + b.m * 100 + b.d

\* C5: once validate_collection_date has returned, every Date_Collected
\* cell holds the date its text denotes under month/day/year, or the
\* missing date when the text denotes none; a row with the missing date has
\* exactly one block "Date_Collected is NA", a row with a date before
\* 2020-02-14 or after the current date has exactly one block "outside of
\* range", and a row with a date from 2020-02-14 to the current date, both
\* included, has no block of this validator.
C5_DateNormalizedAndLogged ==
    DateDone =>
        \A i \in 1..Len(df) :
            LET raw == Ingested[i].Date_Collected
                cell == df[i].Date_Collected
                blocks == BlocksAt(log, i - 1, DateKinds)
            IN  /\ cell = IF raw.t = "str" THEN C5_Denotes(raw.v) ELSE NaT
                /\ \A k \in blocks : OfRow(log[k], i) /\ Len(log[k].issues) = 1
                /\ IF cell = NaT
                   THEN /\ Cardinality(blocks) = 1
                        /\ \A k \in blocks : log[k].issues[1].kind = "Date_Collected is NA"
                   ELSE IF C5_Before(cell, Timestamp(2020, 2, 14)) \/ C5_Before(today, cell)
                   THEN /\ Cardinality(blocks) = 1
                        /\ \A k \in blocks :
                              log[k].issues[1].kind = "Date_Collected is outside of range"
                   ELSE blocks = {}

\* the table holds an unparsable text, the day before the lower bound, the
\* lower bound itself and the current date, and the validator has run
C5_Witness ==
    /\ DateDone
    /\ \E i \in 1..Len(df) : df[i].Date_Collected = NaT /\ Ingested[i].Date_Collected.t = "str"
    /\ \E i \in 1..Len(df) : df[i].Date_Collected = Timestamp(2020, 2, 13)
    /\ \E i \in 1..Len(df) : df[i].Date_Collected = Timestamp(2020, 2, 14)
    /\ \E i \in 1..Len(df) : df[i].Date_Collected = today

\* the text holds "C", "H" or "IN"
C6_HasIdentifier(text) ==
    \/ \E k \in 1..Len(text) : text[k] \in {"C", "H"}
    \/ \E k \in 1..(Len(text) - 1) : text[k] = "I" /\ text[k + 1] = "N"

\* C6: once validate_ptid has returned, a row whose Patient_Study_ID is
\* missing has exactly one block "PTID is NA", a row whose value holds none
\* of "C", "H", "IN" has exactly one block "PTID <value> is not correctly
\* formatted", and a row whose value holds one of them has no block of this
\* validator.
C6_PtidLogged ==
    PtidDone =>
        \A i \in 1..Len(df) :
            LET raw == df[i].Patient_Study_ID
                blocks == BlocksAt(log, i - 1, PtidKinds)
            IN  /\ \A k \in blocks : OfRow(log[k], i) /\ Len(log[k].issues) = 1
                /\ IF raw.t # "str"
                   THEN /\ Cardinality(blocks) = 1
                        /\ \A k \in blocks : log[k].issues[1].kind = "PTID is NA"
                   ELSE IF ~C6_HasIdentifier(raw.v)
                   THEN /\ Cardinality(blocks) = 1
                        /\ \A k \in blocks :
                              /\ log[k].issues[1].kind = "PTID is not correctly formatted"
                              /\ log[k].issues[1].value = raw.v
                   ELSE blocks = {}

\* the table holds a missing patient ID, one with no identifier, one with
\* "IN" only and one with "C", and the validator has run
C6_Witness ==
    /\ PtidDone
    /\ \E i \in 1..Len(df) : df[i].Patient_Study_ID = NaN
    /\ \E i \in 1..Len(df) : df[i].Patient_Study_ID = Str(<<"h", "1">>)
    /\ \E i \in 1..Len(df) : df[i].Patient_Study_ID = Str(<<"I", "N", "2">>)
    /\ \E i \in 1..Len(df) : df[i].Patient_Study_ID = Str(<<"C", "1">>)

\* C7: a run whose table was built with rows in it does not stop before
\* the export, whatever the rows hold.
C7_RunReachesExport ==
    Ingested # <<>> => pc # "crashed"

\* C8: from the moment the table is built, it holds the rows of ingestion
\* in their order, each with its SourceFile and OriginalRow, Barcode_ID and
\* Patient_Study_ID; Date_Collected is as ingested until
\* validate_collection_date has run and Available until validate_available
\* has run.
C8_Provenance ==
    (pc # "extract" /\ master_raw_df # <<>>) =>
        /\ Len(df) = Len(Ingested)
        /\ \A i \in 1..Len(df) :
              /\ df[i].SourceFile = Ingested[i].SourceFile
              /\ df[i].OriginalRow = Ingested[i].OriginalRow
              /\ df[i].Barcode_ID = Ingested[i].Barcode_ID
              /\ df[i].Patient_Study_ID = Ingested[i].Patient_Study_ID
              /\ ~DateDone => df[i].Date_Collected = Ingested[i].Date_Collected
              /\ ~AvailableDone => df[i].Available = Ingested[i].Available

\* the run is over, the table has rows of two spreadsheets, and both
\* mutating validators have rewritten a cell, one of them to the missing
\* date
C8_Witness ==
    /\ pc = "done"
    /\ \E i, j \in 1..Len(df) : df[i].SourceFile # df[j].SourceFile
    /\ \E i \in 1..Len(df) :
          df[i].Date_Collected = NaT /\ Ingested[i].Date_Collected # NaN
    /\ \E i \in 1..Len(df) : df[i].Available = Bool(FALSE)

\* C9: when the spreadsheets have all been visited and none yielded a row,
\* the build has failed with the empty-input error and no validator has
\* started.
C9_NoRowsFailsBuild ==
    (fi > Len(files) /\ Ingested = <<>>) =>
        \/ pc = "extract"
        \/ pc = "crashed" /\ err = "ValueError: No objects to concatenate"

\* the pass a block comes from: the per-row pass of validate_barcodeid, its
\* duplicate pass, validate_ptid, validate_collection_date,
\* validate_available
C10_Pass(b) ==
    CASE b.issues[1].kind \in BarcodeKinds -> 1
      [] b.issues[1].kind \in DuplicateKinds -> 2
      [] b.issues[1].kind \in PtidKinds -> 3
      [] b.issues[1].kind \in DateKinds -> 4
      [] OTHER -> 5

\* C10 as stated: the blocks of the log are in validator order and, within
\* each pass, the duplicate pass included, in ascending table-row order.
C10_AscendingInEveryPass ==
    \A k, l \in 1..Len(log) :
        k < l =>
            /\ C10_Pass(log[k]) <= C10_Pass(log[l])
            /\ C10_Pass(log[k]) = C10_Pass(log[l])
                  => log[k].MasterIndex < log[l].MasterIndex

\* value a of one duplicate block comes before value b of another
C10_KeyBefore(a, b) ==
    \E n \in 1..Len(b) :
        /\ \A m \in 1..(n - 1) : m <= Len(a) /\ a[m] = b[m]
        /\ \/ Len(a) = n - 1
           \/ Len(a) >= n /\ ord(a[n]) < ord(b[n])

\* every block of the log comes before the block that follows it: an
\* earlier pass, or the same per-row pass and a lower table index, or the
\* duplicate pass and a lower Barcode_ID or the same one and a lower table
\* index
C10_Ordered ==
    \A k \in 1..(Len(log) - 1) :
        LET a == log[k]
            b == log[k + 1]
            pa == C10_Pass(a)
            pb == C10_Pass(b)
        IN  /\ pa <= pb
            /\ (pa = pb /\ pa # 2) => a.MasterIndex < b.MasterIndex
            /\ (pa = 2 /\ pb = 2)
                  => \/ C10_KeyBefore(a.issues[1].value, b.issues[1].value)
                     \/ /\ a.issues[1].value = b.issues[1].value
                        /\ a.MasterIndex < b.MasterIndex

\* C10, amended: the log only grows by whole blocks appended at its end;
\* its blocks are in validator order, the per-row pass of a validator in
\* ascending table-row order, and the duplicate blocks of
\* validate_barcodeid group by group, the groups in ascending order of
\* their Barcode_ID and each group in ascending table-row order.
C10_AppendOnlyOrdered ==
    /\ []C10_Ordered
    /\ [][Len(log') >= Len(log) /\ SubSeq(log', 1, Len(log)) = log]_vars

\* the finished log holds blocks of the per-row passes and of two duplicate
\* groups whose rows interleave
C10_Witness ==
    /\ pc = "done"
    /\ \E k, l \in 1..Len(log) :
          /\ k < l
          /\ C10_Pass(log[k]) = 2 /\ C10_Pass(log[l]) = 2
          /\ log[k].MasterIndex > log[l].MasterIndex
    /\ \E k, l \in 1..Len(log) :
          k < l /\ C10_Pass(log[k]) = 3 /\ C10_Pass(log[l]) = 3
    /\ \E k \in 1..Len(log) : C10_Pass(log[k]) = 1
    /\ \E k \in 1..Len(log) : C10_Pass(log[k]) = 5

====
